---- MODULE Spec2Model ----
(***************************************************************************)
(* Model of acdeh.integration_hub.IntegrationHub and of the part of        *)
(* acdeh.knowledge_base.KnowledgeBase it calls.                            *)
(*                                                                         *)
(* Every register_module / integrate invocation runs in a thread of the    *)
(* surrounding service.  A thread is interleaved with the others at the    *)
(* blocking calls (rule store, broker) and between the read and the write  *)
(* of an unlocked `+= 1`.  Spec allows every interleaving; SeqSpec is the  *)
(* same program with one invocation in flight at a time.                   *)
(***************************************************************************)
EXTENDS Integers, Sequences, FiniteSets, TLC

(* ------------------------------ bounds -------------------------------- *)
NumThreads == 2
MaxCalls == 3

Threads == 1..NumThreads

(* ------------------------------ inputs -------------------------------- *)
ModuleIds == {"A", "B"}

EmptyDict == [k \in {} |-> "None"]

\* Python's None as a dict value
NoneVal == "None"

\* Optional[Dict]: None is <<>>, a dict d is <<d>>
None == <<>>
Some(d) == <<d>>

\* module configurations: one without an endpoint, one with endpoint and api_key
PlainConfig == EmptyDict
EndpointConfig == [endpoint |-> "http://b.local", api_key |-> "k"]
Configs == {PlainConfig, EndpointConfig}

\* payloads handed to integrate: x is mapped by a rule below, z by none
Payloads == {[x |-> "1", z |-> "2"]}

\* rule lists the rule store may return for a pair
MapXY == [fields |-> "f", source |-> "x", target |-> "y"]
NoFields == [source |-> "z", target |-> "w"]
NoTarget == [fields |-> "f", source |-> "x"]
RuleLists == {<<>>, <<MapXY>>, <<NoFields, MapXY>>, <<NoTarget>>}

\* inputs of _transform_data called on its own: payloads in which each of the
\* fields x and z is absent, present with a value or present with None, and
\* rule lists of up to MaxRules rules
MaxRules == 2
MapZY == [fields |-> "f", source |-> "z", target |-> "y"]
MapXW == [fields |-> "f", source |-> "x", target |-> "w"]
XfFields == {"x", "z"}
XfValues == {"1", NoneVal}
XfPayloads == UNION {[S -> XfValues] : S \in SUBSET XfFields}
XfRules == {MapXY, MapZY, MapXW, NoFields}
XfRuleLists == UNION {[1..n -> XfRules] : n \in 0..MaxRules}

\* status codes a module endpoint may answer with, and the body of a 200
HttpStatuses == {200, 500}
ResponseBody == [ok |-> "true"]

(* --------------------------- python helpers --------------------------- *)
\* dict.get(k): the value, or None when the key is absent
DictGet(d, k) == IF k \in DOMAIN d THEN d[k] ELSE NoneVal

\* d[k] = v
DictSet(d, k, v) == [x \in (DOMAIN d) \cup {k} |-> IF x = k THEN v ELSE d[x]]

\* the elements of a list
Range(q) == {q[i] : i \in DOMAIN q}

\* truth value of a dict value: None and "" are falsy
Truthy(v) == v # NoneVal /\ v # ""

\* outcome of a call: still running, returned a value, or raised
NoResult == [kind |-> "none", value |-> None, exc |-> "", msg |-> "", arg |-> <<>>]
Returns(v) == [kind |-> "return", value |-> v, exc |-> "", msg |-> "", arg |-> <<>>]
Raises(exc, msg, arg) == [kind |-> "raise", value |-> None, exc |-> exc, msg |-> msg, arg |-> arg]

KeyError(k) == Raises("KeyError", "", <<k>>)

\* ValueError(f"Module {module_id} already registered.")
DuplicateModuleError(module_id) == Raises("ValueError", "already registered", <<module_id>>)

\* ValueError(f"No integration rule between {source} and {target}.")
NoIntegrationRuleError(source, target) ==
    Raises("ValueError", "No integration rule", <<source, target>>)

(* ------------------------------- state -------------------------------- *)
VARIABLES
    modules,            \* IntegrationHub.modules: module_id -> record
    driver,             \* KnowledgeBase.driver: FALSE is None, TRUE a driver
    dashboard_updates,  \* routes added to IntegrationHub.dashboard_updates
    ncalls,             \* invocations started so far
    pc,                 \* per thread: position in its invocation
    call,               \* per thread: operation and arguments
    local,              \* per thread: local variables of the invocation, what the
                        \* rule store, endpoint and broker answered, steps taken
    sent,               \* per thread: deliveries made by the invocation
    result,             \* per thread: outcome of the invocation
    pre,                \* per thread: modules when the invocation started
    xf                  \* a call of _transform_data on its own: arguments and outcome

vars == <<modules, driver, dashboard_updates, ncalls, pc, call, local, sent, result, pre, xf>>

NoCall == [op |-> "none", a |-> "", b |-> "", config |-> EmptyDict, data |-> EmptyDict]
NoLocal == [transformed |-> EmptyDict, err |-> NoResult, oid |-> 0, val |-> 0,
            answer |-> "", status |-> 0, accepted |-> FALSE, steps |-> <<>>]

\* no call of _transform_data on its own
NoTransform == [data |-> EmptyDict, rules |-> <<>>, out |-> NoResult]

\* the hub after __init__, before any call
HubInit ==
    /\ modules = EmptyDict
    /\ driver = FALSE
    /\ dashboard_updates = <<>>
    /\ ncalls = 0
    /\ pc = [t \in Threads |-> "idle"]
    /\ call = [t \in Threads |-> NoCall]
    /\ local = [t \in Threads |-> NoLocal]
    /\ sent = [t \in Threads |-> <<>>]
    /\ result = [t \in Threads |-> NoResult]
    /\ pre = [t \in Threads |-> EmptyDict]

Init == HubInit /\ xf = NoTransform

(* --------------------------- KnowledgeBase ---------------------------- *)
\* knowledge_base.py imports typing, json and neo4j.exceptions only: the
\* logging.error call in an except block raises NameError in place of the
\* error being handled
LoggingImported == FALSE

\* connect(): GraphDatabase.driver either yields a driver, which is kept, or
\* raises and leaves self.driver as it was
connect ==
    /\ \E up \in BOOLEAN : driver' = (driver \/ up)
    /\ UNCHANGED <<modules, dashboard_updates, ncalls, pc, call, local, sent, result, pre, xf>>

\* validate_schema(module_id, config): found is whether the store has a node
\* for module_id; with no driver self.driver.session() raises
validate_schema(module_id, found) ==
    IF driver /\ found
    THEN Returns(None)
    ELSE IF LoggingImported
         THEN IF driver
              THEN Raises("ValueError", "Schema not found", <<module_id>>)
              ELSE Raises("AttributeError", "session", <<>>)
         ELSE Raises("NameError", "logging", <<>>)

\* has_integrity_rule(source, target): answer is what the store holds for the
\* pair; the query raises when the store cannot be reached
has_integrity_rule(source, target, answer) ==
    IF driver /\ answer \in {"allowed", "denied"}
    THEN Returns(<<answer = "allowed">>)
    ELSE Raises("ServiceUnavailable", "has_integrity_rule", <<source, target>>)

\* get_transformation_rules(source, target): rules is the ordered rule list
\* the store holds for the pair, reachable whether the query gets through
get_transformation_rules(source, target, rules, reachable) ==
    IF driver /\ reachable
    THEN Returns(<<rules>>)
    ELSE Raises("ServiceUnavailable", "get_transformation_rules", <<source, target>>)

(* --------------------------- IntegrationHub --------------------------- *)
\* identity of the record object about to be stored under module_id: the
\* first record of an id is object 1, a record stored over it object 2, ...
FreshOid(module_id) ==
    IF module_id \in DOMAIN modules THEN modules[module_id].oid + 1 ELSE 1

\* the record register_module stores; oid stands for the identity of the
\* record object and of its metrics dict
NewRecord(config, oid) ==
    [config |-> config, status |-> "active",
     metrics |-> [success |-> 0, failure |-> 0], oid |-> oid]

\* keys of the stored record as Python sees them
RecordDict(rec) == [k \in {"config", "status", "metrics"} |-> rec[k]]

\* mutant: only a module that is not active counts as already registered
AlreadyRegistered_InactiveOnly(module_id) ==
    module_id \in DOMAIN modules /\ modules[module_id].status # "active"

\* line 21: `module_id in self.modules`
AlreadyRegistered(module_id) == module_id \in DOMAIN modules

\* self.modules[module_id] finds a record; otherwise it raises KeyError
HasKey(module_id) == module_id \in DOMAIN modules

\* _update_dashboard(message): add_route appends a route; an exception it
\* raises is logged and dropped
_update_dashboard(message, added) ==
    IF added THEN Append(dashboard_updates, message) ELSE dashboard_updates

\* mutant: an exception of add_route is not caught
DashboardOutcome_Propagates(added) ==
    IF added THEN Returns(None) ELSE Raises("RuntimeError", "add_route", <<>>)

\* what the call of _update_dashboard at line 35 hands back to
\* register_module: it returns None, also when add_route raised (lines 110-111)
DashboardOutcome(added) == Returns(None)

\* register_module, lines 21-22: the membership test, and the raise that the
\* except block logs and re-raises
RegisterCheck(t) ==
    /\ pc[t] = "idle"
    /\ ncalls < MaxCalls
    /\ \E module_id \in ModuleIds, config \in Configs :
        /\ call' = [call EXCEPT ![t] = [NoCall EXCEPT !.op = "register_module",
                                        !.a = module_id, !.config = config]]
        /\ IF AlreadyRegistered(module_id)
           THEN /\ result' = [result EXCEPT ![t] = DuplicateModuleError(module_id)]
                /\ pc' = [pc EXCEPT ![t] = "done"]
           ELSE /\ result' = result
                /\ pc' = [pc EXCEPT ![t] = "validate"]
    /\ ncalls' = ncalls + 1
    /\ pre' = [pre EXCEPT ![t] = modules]
    /\ UNCHANGED <<modules, driver, dashboard_updates, local, sent, xf>>

\* register_module, lines 25-39: validate_schema returns or raises; on return
\* the record is stored and the dashboard notified
RegisterInsert(t) ==
    /\ pc[t] = "validate"
    /\ \E found \in BOOLEAN, added \in BOOLEAN :
        LET module_id == call[t].a
            v == validate_schema(module_id, found)
        IN  IF v.kind = "raise"
            THEN /\ result' = [result EXCEPT ![t] = v]
                 /\ local' = [local EXCEPT ![t].answer = "invalid",
                                           ![t].steps = <<"validate">>]
                 /\ UNCHANGED <<modules, dashboard_updates>>
            ELSE /\ modules' = DictSet(modules, module_id, NewRecord(call[t].config, FreshOid(module_id)))
                 /\ dashboard_updates' =
                        _update_dashboard("Module " \o module_id \o " registered.", added)
                 /\ result' = [result EXCEPT ![t] = DashboardOutcome(added)]
                 /\ local' = [local EXCEPT ![t].answer = "valid",
                                           ![t].steps = <<"validate", "store",
                                               IF added THEN "notify" ELSE "notify_failed">>]
    /\ pc' = [pc EXCEPT ![t] = "done"]
    /\ UNCHANGED <<driver, ncalls, call, sent, pre, xf>>

\* the caller takes the outcome; the thread is free for the next invocation
Retire(t) ==
    /\ pc[t] = "done"
    /\ pc' = [pc EXCEPT ![t] = "idle"]
    /\ call' = [call EXCEPT ![t] = NoCall]
    /\ local' = [local EXCEPT ![t] = NoLocal]
    /\ sent' = [sent EXCEPT ![t] = <<>>]
    /\ result' = [result EXCEPT ![t] = NoResult]
    /\ pre' = [pre EXCEPT ![t] = EmptyDict]
    /\ UNCHANGED <<modules, driver, dashboard_updates, ncalls, xf>>

\* integration_hub.py never imports requests: requests.post raises NameError
RequestsImported == FALSE

\* _transform_data, lines 72-77, from rule i on; acc is `transformed`
RECURSIVE ApplyRules(_, _, _, _)
ApplyRules(data, rules, i, acc) ==
    IF i > Len(rules)
    THEN Returns(<<acc>>)
    ELSE LET rule == rules[i]
         IN  IF "fields" \in DOMAIN rule
             THEN IF "source" \notin DOMAIN rule
                  THEN KeyError("source")
                  ELSE IF "target" \notin DOMAIN rule
                       THEN KeyError("target")
                       ELSE ApplyRules(data, rules, i + 1,
                                DictSet(acc, rule["target"], DictGet(data, rule["source"])))
             ELSE ApplyRules(data, rules, i + 1, acc)

\* _transform_data(data, source, target); fetched is the outcome of
\* get_transformation_rules, whose exception is logged and re-raised
_transform_data(data, fetched) ==
    IF fetched.kind = "raise"
    THEN fetched
    ELSE ApplyRules(data, fetched.value[1], 1, EmptyDict)

\* the request _call_module_api would post
ApiRequest(module_id, endpoint, data) ==
    LET config == modules[module_id].config
    IN  [kind |-> "http", dest |-> config["endpoint"] \o "/" \o endpoint,
         auth |-> "Bearer " \o DictGet(config, "api_key"), body |-> data]

\* _call_module_api(module_id, endpoint, data); status is the code the
\* module's endpoint answers with
_call_module_api(module_id, endpoint, data, status) ==
    IF ~RequestsImported
    THEN Raises("NameError", "requests", <<>>)
    ELSE IF "endpoint" \notin DOMAIN modules[module_id].config
         THEN KeyError("endpoint")
         ELSE IF status = 200
              THEN Returns(Some(ResponseBody))
              ELSE Raises("ValueError", "API call failed", <<module_id>>)

\* line 52: self.modules[target].get('endpoint'), read on the stored record
RoutesToApi(target) == Truthy(DictGet(RecordDict(modules[target]), "endpoint"))

\* what the endpoint of the target answers a request with: one of the status
\* codes, or 0 when the target has no endpoint to ask
EndpointAnswers(target) ==
    IF HasKey(target) /\ "endpoint" \in DOMAIN modules[target].config
    THEN HttpStatuses
    ELSE {0}

\* whether the broker takes the message sent to it; no message is sent for a
\* target that has no record
BrokerAnswers(target) ==
    IF HasKey(target) THEN BOOLEAN ELSE {FALSE}

\* mutant: the topic is built without the target's id
KafkaMessage_FixedTopic(target, data) ==
    [kind |-> "kafka", dest |-> "_data", auth |-> "", body |-> data]

\* the message kafka_producer.send publishes at line 56
KafkaMessage(target, data) ==
    [kind |-> "kafka", dest |-> target \o "_data", auth |-> "", body |-> data]

\* the exception reaches the except block of integrate (line 61); done are
\* the steps the invocation has taken
Fail(t, e, done) ==
    /\ local' = [local EXCEPT ![t].err = e, ![t].steps = done]
    /\ pc' = [pc EXCEPT ![t] = "fail_read"]

\* mutant: a refusal is not raised, the call goes on
Permitted_Always(r) == r.kind = "return"

\* line 45: the query returned and `not has_integrity_rule(...)` is false
Permitted(r) == r.kind = "return" /\ r.value[1]

\* integrate, lines 45-46: the permission query and the raise on a refusal
IntegrateCheck(t) ==
    /\ pc[t] = "idle"
    /\ ncalls < MaxCalls
    /\ \E source \in ModuleIds, target \in ModuleIds, data \in Payloads,
          answer \in {"allowed", "denied", "unavailable"} :
        LET r == has_integrity_rule(source, target, answer)
            e == IF r.kind = "raise" THEN r
                 ELSE NoIntegrationRuleError(source, target)
            said == IF r.kind = "raise" THEN "unavailable"
                    ELSE IF r.value[1] THEN "allowed" ELSE "denied"
        IN  /\ call' = [call EXCEPT ![t] = [NoCall EXCEPT !.op = "integrate",
                                            !.a = source, !.b = target, !.data = data]]
            /\ IF Permitted(r)
               THEN /\ local' = [local EXCEPT ![t].answer = said,
                                              ![t].steps = <<"permission">>]
                    /\ pc' = [pc EXCEPT ![t] = "transform"]
               ELSE /\ local' = [local EXCEPT ![t].err = e, ![t].steps = <<"permission">>,
                                 ![t].answer = said]
                    /\ pc' = [pc EXCEPT ![t] = "fail_read"]
    /\ ncalls' = ncalls + 1
    /\ pre' = [pre EXCEPT ![t] = modules]
    /\ UNCHANGED <<modules, driver, dashboard_updates, sent, result, xf>>

\* integrate, line 49: _transform_data
IntegrateTransform(t) ==
    /\ pc[t] = "transform"
    /\ \E rules \in RuleLists, reachable \in BOOLEAN :
        LET fetched == get_transformation_rules(call[t].a, call[t].b, rules, reachable)
            r == _transform_data(call[t].data, fetched)
            done == local[t].steps \o
                    (IF fetched.kind = "raise" THEN <<"rules">> ELSE <<"rules", "transform">>)
        IN  IF r.kind = "raise"
            THEN Fail(t, r, done)
            ELSE /\ local' = [local EXCEPT ![t].transformed = r.value[1], ![t].steps = done]
                 /\ pc' = [pc EXCEPT ![t] = "deliver"]
    /\ UNCHANGED <<modules, driver, dashboard_updates, ncalls, call, sent, result, pre, xf>>

\* integrate, lines 52-56: the lookup of the target, the choice of the route
\* and the delivery; status is what the target's endpoint answers with and
\* accepted whether the broker takes a message
IntegrateDeliver(t) ==
    /\ pc[t] = "deliver"
    /\ \E status \in EndpointAnswers(call[t].b), accepted \in BrokerAnswers(call[t].b) :
        LET target == call[t].b
            data == local[t].transformed
            route == IF ~HasKey(target) THEN <<"lookup">>
                     ELSE IF RoutesToApi(target) THEN <<"lookup", "post">>
                     ELSE <<"lookup", "publish">>
            env == [local EXCEPT ![t].status = status, ![t].accepted = accepted,
                                 ![t].steps = @ \o route]
        IN  IF ~HasKey(target)
            THEN /\ local' = [env EXCEPT ![t].err = KeyError(target)]
                 /\ pc' = [pc EXCEPT ![t] = "fail_read"]
                 /\ UNCHANGED <<sent, result>>
            ELSE IF RoutesToApi(target)
                 THEN LET r == _call_module_api(target, "integrate", data, status)
                      IN  /\ sent' = IF RequestsImported
                                     THEN [sent EXCEPT ![t] = Append(@, ApiRequest(target, "integrate", data))]
                                     ELSE sent
                          /\ IF r.kind = "return"
                             THEN /\ result' = [result EXCEPT ![t] = r]
                                  /\ local' = env
                                  /\ pc' = [pc EXCEPT ![t] = "done"]
                             ELSE /\ local' = [env EXCEPT ![t].err = r]
                                  /\ pc' = [pc EXCEPT ![t] = "fail_read"]
                                  /\ result' = result
                 ELSE IF accepted
                      THEN /\ sent' = [sent EXCEPT ![t] = Append(@, KafkaMessage(target, data))]
                           /\ local' = env
                           /\ pc' = [pc EXCEPT ![t] = "succ_read"]
                           /\ result' = result
                      ELSE /\ local' = [env EXCEPT ![t].err = Raises("KafkaError", "send", <<target>>)]
                           /\ pc' = [pc EXCEPT ![t] = "fail_read"]
                           /\ UNCHANGED <<sent, result>>
    /\ UNCHANGED <<modules, driver, dashboard_updates, ncalls, call, pre, xf>>

\* mutant: the incremented value is dropped, no counter is stored
StoreMetric_NoStore(module_id, oid, field, v) ==
    IF HasKey(module_id) /\ modules[module_id].oid = oid
    THEN [modules EXCEPT ![module_id].metrics[field] = v - 1]
    ELSE modules

\* mutant: every outcome is counted as a success
StoreMetric_AlwaysSuccess(module_id, oid, field, v) ==
    IF HasKey(module_id) /\ modules[module_id].oid = oid
    THEN [modules EXCEPT ![module_id].metrics["success"] = v]
    ELSE modules

\* mutant: the value is stored into the other counter
StoreMetric_OtherCounter(module_id, oid, field, v) ==
    IF HasKey(module_id) /\ modules[module_id].oid = oid
    THEN [modules EXCEPT ![module_id].metrics[IF field = "success" THEN "failure"
                                              ELSE "success"] = v]
    ELSE modules

\* mutant: all records share one metrics dict, a store shows in each of them
StoreMetric_SharedMetrics(module_id, oid, field, v) ==
    IF HasKey(module_id) /\ modules[module_id].oid = oid
    THEN [m \in DOMAIN modules |-> [modules[m] EXCEPT !.metrics[field] = v]]
    ELSE modules

\* the store half of `self.modules[id]['metrics'][field] += 1`: the value goes
\* into the metrics dict that was read, which the registry may no longer hold
StoreMetric(module_id, oid, field, v) ==
    IF HasKey(module_id) /\ modules[module_id].oid = oid
    THEN [modules EXCEPT ![module_id].metrics[field] = v]
    ELSE modules

\* integrate, line 59: the read half of `+= 1` on success
IntegrateSuccRead(t) ==
    /\ pc[t] = "succ_read"
    /\ LET source == call[t].a
       IN  IF ~HasKey(source)
           THEN Fail(t, KeyError(source), Append(local[t].steps, "count_success"))
           ELSE /\ local' = [local EXCEPT ![t].oid = modules[source].oid,
                                          ![t].val = modules[source].metrics.success,
                                          ![t].steps = Append(@, "count_success")]
                /\ pc' = [pc EXCEPT ![t] = "succ_write"]
    /\ UNCHANGED <<modules, driver, dashboard_updates, ncalls, call, sent, result, pre, xf>>

\* integrate, line 59: the store half; the function then returns None
IntegrateSuccWrite(t) ==
    /\ pc[t] = "succ_write"
    /\ modules' = StoreMetric(call[t].a, local[t].oid, "success", local[t].val + 1)
    /\ result' = [result EXCEPT ![t] = Returns(None)]
    /\ local' = [local EXCEPT ![t].oid = 0, ![t].val = 0]
    /\ pc' = [pc EXCEPT ![t] = "done"]
    /\ UNCHANGED <<driver, dashboard_updates, ncalls, call, sent, pre, xf>>

\* integrate, line 63: the read half of `+= 1` in the except block; a
\* KeyError raised here replaces the exception being handled
IntegrateFailRead(t) ==
    /\ pc[t] = "fail_read"
    /\ LET source == call[t].a
       IN  IF ~HasKey(source)
           THEN /\ result' = [result EXCEPT ![t] = KeyError(source)]
                /\ pc' = [pc EXCEPT ![t] = "done"]
                /\ local' = [local EXCEPT ![t].steps = Append(@, "count_failure")]
           ELSE /\ local' = [local EXCEPT ![t].oid = modules[source].oid,
                                          ![t].val = modules[source].metrics.failure,
                                          ![t].steps = Append(@, "count_failure")]
                /\ pc' = [pc EXCEPT ![t] = "fail_write"]
                /\ result' = result
    /\ UNCHANGED <<modules, driver, dashboard_updates, ncalls, call, sent, pre, xf>>

\* integrate, lines 63-64: the store half, then the exception is re-raised
IntegrateFailWrite(t) ==
    /\ pc[t] = "fail_write"
    /\ modules' = StoreMetric(call[t].a, local[t].oid, "failure", local[t].val + 1)
    /\ result' = [result EXCEPT ![t] = local[t].err]
    /\ local' = [local EXCEPT ![t].oid = 0, ![t].val = 0]
    /\ pc' = [pc EXCEPT ![t] = "done"]
    /\ UNCHANGED <<driver, dashboard_updates, ncalls, call, sent, pre, xf>>

(* --------------------------- specifications --------------------------- *)
Next ==
    \/ connect
    \/ \E t \in Threads : RegisterCheck(t)
    \/ \E t \in Threads : RegisterInsert(t)
    \/ \E t \in Threads : IntegrateCheck(t)
    \/ \E t \in Threads : IntegrateTransform(t)
    \/ \E t \in Threads : IntegrateDeliver(t)
    \/ \E t \in Threads : IntegrateSuccRead(t)
    \/ \E t \in Threads : IntegrateSuccWrite(t)
    \/ \E t \in Threads : IntegrateFailRead(t)
    \/ \E t \in Threads : IntegrateFailWrite(t)
    \/ \E t \in Threads : Retire(t)

Spec == Init /\ [][Next]_vars

\* no other invocation is in flight
Alone(t) == \A u \in Threads \ {t} : pc[u] = "idle"

SeqRegisterCheck(t) == Alone(t) /\ RegisterCheck(t)
SeqIntegrateCheck(t) == Alone(t) /\ IntegrateCheck(t)

SeqNext ==
    \/ connect
    \/ \E t \in Threads : SeqRegisterCheck(t)
    \/ \E t \in Threads : RegisterInsert(t)
    \/ \E t \in Threads : SeqIntegrateCheck(t)
    \/ \E t \in Threads : IntegrateTransform(t)
    \/ \E t \in Threads : IntegrateDeliver(t)
    \/ \E t \in Threads : IntegrateSuccRead(t)
    \/ \E t \in Threads : IntegrateSuccWrite(t)
    \/ \E t \in Threads : IntegrateFailRead(t)
    \/ \E t \in Threads : IntegrateFailWrite(t)
    \/ \E t \in Threads : Retire(t)

SeqSpec == Init /\ [][SeqNext]_vars

TypeOK ==
    /\ DOMAIN modules \subseteq ModuleIds
    /\ driver \in BOOLEAN
    /\ ncalls \in 0..MaxCalls
    /\ \A t \in Threads : pc[t] \in {"idle", "validate", "transform", "deliver",
                                     "succ_read", "succ_write", "fail_read", "fail_write", "done"}

\* _transform_data on its own: the rule store hands back xf.rules and the
\* loop of lines 72-77 runs over xf.data
TransformInit ==
    /\ HubInit
    /\ \E data \in XfPayloads, rules \in XfRuleLists :
         xf = [data |-> data, rules |-> rules, out |-> NoResult]

Transform ==
    /\ xf.out = NoResult
    /\ xf' = [xf EXCEPT !.out = _transform_data(xf.data, Returns(<<xf.rules>>))]
    /\ UNCHANGED <<modules, driver, dashboard_updates, ncalls, pc, call, local,
                   sent, result, pre>>

TransformNext == Transform

TransformSpec == TransformInit /\ [][TransformNext]_vars

(* ------------------------------- claims ------------------------------- *)
\* thread t has finished an invocation of op and its caller has the outcome
Finished(t, op) == pc[t] = "done" /\ call[t].op = op

\* the deliveries invocation t attempted, in order
Attempts(t) == SelectSeq(local[t].steps, LAMBDA x : x \in {"post", "publish"})

\* the step of invocation t that raised: the one before the except block
FailedStep(t) ==
    LET before == SelectSeq(local[t].steps, LAMBDA x : x # "count_failure")
    IN  IF before = <<>> THEN "" ELSE before[Len(before)]

\* mods is pre with the counters of module m moved by ds and df
CountersMoved(mods, old, m, ds, df) ==
    /\ m \in DOMAIN mods
    /\ mods[m].metrics.success = old[m].metrics.success + ds
    /\ mods[m].metrics.failure = old[m].metrics.failure + df

\* C1: a register_module call for a module_id that is already in the registry
\* raises the duplicate-module error at once (it never reaches validation) and
\* leaves the registry, the record of module_id included, as it was.
C1_DuplicateRejected ==
    \A t \in Threads :
        (call[t].op = "register_module" /\ call[t].a \in DOMAIN pre[t])
            => /\ pc[t] = "done"
               /\ result[t] = DuplicateModuleError(call[t].a)
               /\ modules = pre[t]

\* C1 witness: a second registration of a module, with another config than
\* the one it is registered with, has been rejected
C1_Witness ==
    \E t \in Threads :
        /\ Finished(t, "register_module")
        /\ call[t].a \in DOMAIN pre[t]
        /\ call[t].config # pre[t][call[t].a].config
        /\ pre[t][call[t].a].metrics.failure > 0
        /\ result[t].kind = "raise"

\* C2 (as claimed): when every thread has run one integrate call from the
\* same registered source, all started from the same registry and all returned
\* normally, the source's successCount has grown by the number of calls.
C2_NoLostIncrement ==
    \A m \in ModuleIds :
        LET S == {t \in Threads : /\ Finished(t, "integrate")
                                  /\ call[t].a = m
                                  /\ result[t].kind = "return"
                                  /\ m \in DOMAIN pre[t]}
        IN  (S = Threads /\ \A t, u \in S : pre[t] = pre[u])
                => \A t \in S :
                       modules[m].metrics.success =
                           pre[t][m].metrics.success + Cardinality(S)

\* C3 (as claimed): of the register_module calls in flight for one module_id
\* at most one returns normally, and a record in the registry is the first
\* object stored under its id: it was never stored over.
C3_OneRegistrationWins ==
    /\ \A t, u \in Threads :
           (/\ t # u
            /\ call[t].op = "register_module" /\ call[u].op = "register_module"
            /\ call[t].a = call[u].a
            /\ result[t].kind = "return")
               => result[u].kind # "return"
    /\ \A m \in DOMAIN modules : modules[m].oid = 1

\* C4 (as claimed): an integrate call from a registered source that the rule
\* store refuses raises the no-rule error and leaves the registry, every
\* counter included, as it was.
C4_DeniedLeavesMetrics ==
    \A t \in Threads :
        (/\ Finished(t, "integrate")
         /\ local[t].answer = "denied"
         /\ call[t].a \in DOMAIN pre[t])
            => /\ result[t] = NoIntegrationRuleError(call[t].a, call[t].b)
               /\ modules = pre[t]

\* C4 (amended): with no other call in flight, an integrate call that the rule
\* store refuses makes no delivery; from a registered source it raises the
\* no-rule error and adds exactly 1 to the source's failureCount, changing
\* nothing else in the registry; from an unregistered source it raises the
\* KeyError of the source and leaves the registry as it was.
C4_DeniedCountsFailure ==
    \A t \in Threads :
        (Finished(t, "integrate") /\ local[t].answer = "denied")
            => /\ sent[t] = <<>>
               /\ local[t].steps = <<"permission", "count_failure">>
               /\ IF call[t].a \in DOMAIN pre[t]
                  THEN /\ result[t] = NoIntegrationRuleError(call[t].a, call[t].b)
                       /\ modules = [pre[t] EXCEPT ![call[t].a].metrics.failure = @ + 1]
                  ELSE /\ result[t] = KeyError(call[t].a)
                       /\ modules = pre[t]

\* C4 witness: a refused call from a registered source to another registered
\* module has finished
C4_Witness ==
    \E t \in Threads :
        /\ Finished(t, "integrate")
        /\ local[t].answer = "denied"
        /\ call[t].a \in DOMAIN pre[t]
        /\ call[t].b \in DOMAIN pre[t]
        /\ call[t].a # call[t].b
        /\ result[t].kind = "raise"

\* C5 (as claimed): an integrate call that reached the delivery step with a
\* registered target made exactly one delivery attempt: a post to the target's
\* endpoint when the target's config has an endpoint, a publish otherwise.
C5_RouteByConfig ==
    \A t \in Threads :
        (/\ Finished(t, "integrate")
         /\ "lookup" \in Range(local[t].steps)
         /\ call[t].b \in DOMAIN pre[t])
            => Attempts(t) = IF "endpoint" \in DOMAIN pre[t][call[t].b].config
                             THEN <<"post">>
                             ELSE <<"publish">>

\* C6 (as claimed): an allowed integrate call from a registered source to a
\* registered target whose config has an endpoint, when that endpoint answers
\* 200, returns the response body and adds exactly 1 to the source's
\* successCount, leaving its failureCount.
C6_ApiSuccess ==
    \A t \in Threads :
        (/\ Finished(t, "integrate")
         /\ call[t].a \in DOMAIN pre[t]
         /\ call[t].b \in DOMAIN pre[t]
         /\ "endpoint" \in DOMAIN pre[t][call[t].b].config
         /\ "lookup" \in Range(local[t].steps)
         /\ local[t].status = 200)
            => /\ result[t] = Returns(Some(ResponseBody))
               /\ CountersMoved(modules, pre[t], call[t].a, 1, 0)

\* C7: with no other call in flight, an allowed integrate call from a
\* registered source to a registered target whose config has no endpoint, whose
\* publish the broker accepts, publishes exactly one message, the transformed
\* payload to the topic "<target>_data", returns None and adds exactly 1 to the
\* source's successCount, leaving its failureCount.
C7_PublishSuccess ==
    \A t \in Threads :
        (/\ Finished(t, "integrate")
         /\ call[t].a \in DOMAIN pre[t]
         /\ call[t].b \in DOMAIN pre[t]
         /\ "endpoint" \notin DOMAIN pre[t][call[t].b].config
         /\ "lookup" \in Range(local[t].steps)
         /\ local[t].accepted)
            => /\ sent[t] = <<[kind |-> "kafka", dest |-> call[t].b \o "_data",
                               auth |-> "", body |-> local[t].transformed]>>
               /\ result[t] = Returns(None)
               /\ CountersMoved(modules, pre[t], call[t].a, 1, 0)

\* C7 witness: such a call has returned, from a source to another module
C7_Witness ==
    \E t \in Threads :
        /\ Finished(t, "integrate")
        /\ call[t].a \in DOMAIN pre[t]
        /\ call[t].b \in DOMAIN pre[t]
        /\ call[t].a # call[t].b
        /\ "endpoint" \notin DOMAIN pre[t][call[t].b].config
        /\ local[t].accepted
        /\ Len(sent[t]) = 1
        /\ sent[t][1].body = [y |-> "1"]
        /\ result[t].kind = "return"

\* C8: with no other call in flight, when rule retrieval, transformation or
\* the publish raises in an integrate call from a registered source, the call
\* raises that same error, the source's failureCount has grown by exactly 1 and
\* its successCount is as it was.
C8_FailureCounted ==
    \A t \in Threads :
        (/\ Finished(t, "integrate")
         /\ call[t].a \in DOMAIN pre[t]
         /\ FailedStep(t) \in {"rules", "transform", "publish", "post"})
            => /\ result[t].kind = "raise"
               /\ result[t] = local[t].err
               /\ result[t].exc = CASE FailedStep(t) = "rules" -> "ServiceUnavailable"
                                    [] FailedStep(t) = "transform" -> "KeyError"
                                    [] FailedStep(t) = "publish" -> "KafkaError"
                                    [] OTHER -> result[t].exc
               /\ CountersMoved(modules, pre[t], call[t].a, 0, 1)

\* C8 witness: a call whose publish the broker rejected has finished
C8_Witness ==
    \E t \in Threads :
        /\ Finished(t, "integrate")
        /\ call[t].a \in DOMAIN pre[t]
        /\ FailedStep(t) = "publish"
        /\ result[t].exc = "KafkaError"

\* C9 (as claimed): an integrate call from a registered source whose target is
\* not registered raises the no-rule error when the rule store refuses the
\* pair; when the store allows it and the call gets to look the target up, it
\* raises the KeyError of the target, delivers nothing and leaves the source's
\* counters as they were.
C9_UnknownTarget ==
    \A t \in Threads :
        (/\ Finished(t, "integrate")
         /\ call[t].a \in DOMAIN pre[t]
         /\ call[t].b \notin DOMAIN pre[t])
            => /\ local[t].answer = "denied"
                    => result[t] = NoIntegrationRuleError(call[t].a, call[t].b)
               /\ "lookup" \in Range(local[t].steps)
                    => /\ result[t] = KeyError(call[t].b)
                       /\ sent[t] = <<>>
                       /\ CountersMoved(modules, pre[t], call[t].a, 0, 0)

\* C10 (as claimed): an integrate call from a source that is not registered
\* raises, either the KeyError of the source or the error that stopped it,
\* delivers nothing and leaves the registry as it was.
C10_UnknownSource ==
    \A t \in Threads :
        (Finished(t, "integrate") /\ call[t].a \notin DOMAIN pre[t])
            => /\ result[t].kind = "raise"
               /\ result[t] \in {KeyError(call[t].a), local[t].err}
               /\ sent[t] = <<>>
               /\ modules = pre[t]

\* C11: with no other call in flight, an integrate call, at every step and
\* whatever its outcome, leaves the set of registered modules as it was, leaves
\* the record of every module other than the source (the target included) as
\* it was, and changes nothing but the counters in the source's record.
C11_OnlySourceMetrics ==
    \A t \in Threads :
        call[t].op = "integrate"
            => /\ DOMAIN modules = DOMAIN pre[t]
               /\ \A m \in DOMAIN modules :
                    IF m = call[t].a
                    THEN [modules[m] EXCEPT !.metrics = pre[t][m].metrics] = pre[t][m]
                    ELSE modules[m] = pre[t][m]

\* C11 witness: a call between two different registered modules has finished
\* and the source's counters have moved
C11_Witness ==
    \E t \in Threads :
        /\ Finished(t, "integrate")
        /\ call[t].a # call[t].b
        /\ {call[t].a, call[t].b} \subseteq DOMAIN pre[t]
        /\ modules[call[t].a].metrics # pre[t][call[t].a].metrics
        /\ modules[call[t].b] = pre[t][call[t].b]

\* C12 (as claimed): in every interleaving of register_module and integrate
\* calls no step lowers a counter: a module that is registered stays
\* registered and its successCount and failureCount after the step are at
\* least what they were before it.
C12_CountersNeverDecrease ==
    [][\A m \in DOMAIN modules :
          /\ m \in DOMAIN modules'
          /\ modules'[m].metrics.success >= modules[m].metrics.success
          /\ modules'[m].metrics.failure >= modules[m].metrics.failure]_vars

\* C13 (as claimed): every module in the registry has status active, and no
\* step of a register_module or integrate call removes a registered module,
\* changes its status or changes the config it was registered with.
C13_RecordStable ==
    [][/\ \A m \in DOMAIN modules : modules[m].status = "active"
       /\ \A m \in DOMAIN modules :
            /\ m \in DOMAIN modules'
            /\ modules'[m].status = "active"
            /\ modules'[m].config = modules[m].config]_vars

\* C14 (as claimed): when validate_schema fails in a register_module call, the
\* caller gets the error the validation failed with (the schema error, or the
\* error of the unreachable store), the registry is as it was before the call,
\* the module is not in it and no registration message for it was emitted.
C14_SchemaErrorPropagated ==
    \A t \in Threads :
        (Finished(t, "register_module") /\ local[t].answer = "invalid")
            => /\ result[t].kind = "raise"
               /\ result[t].exc \in {"ValueError", "AttributeError"}
               /\ modules = pre[t]
               /\ call[t].a \notin DOMAIN modules
               /\ \A i \in DOMAIN dashboard_updates :
                    dashboard_updates[i] # "Module " \o call[t].a \o " registered."

\* C15: with no other call in flight, a register_module call whose
\* notification the dashboard refused still returns normally, and the module is
\* in the registry with the config of the call, status active and both
\* counters 0, the rest of the registry being as it was.
C15_SinkFailureDiscarded ==
    \A t \in Threads :
        (Finished(t, "register_module") /\ "notify_failed" \in Range(local[t].steps))
            => /\ result[t] = Returns(None)
               /\ call[t].a \in DOMAIN modules
               /\ modules[call[t].a].config = call[t].config
               /\ modules[call[t].a].status = "active"
               /\ modules[call[t].a].metrics = [success |-> 0, failure |-> 0]
               /\ \A m \in DOMAIN pre[t] : m \in DOMAIN modules /\ modules[m] = pre[t][m]
               /\ DOMAIN modules = DOMAIN pre[t] \cup {call[t].a}

\* C15 witness: a registration whose notification failed has returned, and no
\* message for the module is on the dashboard
C15_Witness ==
    \E t \in Threads :
        /\ Finished(t, "register_module")
        /\ local[t].steps = <<"validate", "store", "notify_failed">>
        /\ call[t].a \in DOMAIN modules
        /\ \A i \in DOMAIN dashboard_updates :
             dashboard_updates[i] # "Module " \o call[t].a \o " registered."

\* the rules of xf.rules the loop acts on (line 74: those with a 'fields' key)
Recognised == {i \in DOMAIN xf.rules : "fields" \in DOMAIN xf.rules[i]}

\* C16 (as claimed): in the result of _transform_data, the target field of a
\* rule whose source field is not in the payload is absent unless another rule
\* with a present source field maps to the same target, and a field of the
\* result is None only when a rule maps to it from a field that is in the
\* payload with the value None.
C16_AbsentSourceAbsentTarget ==
    xf.out.kind = "return"
        => LET P == xf.data
               R == xf.rules
               out == xf.out.value[1]
           IN  /\ \A i \in Recognised :
                    (/\ R[i].source \notin DOMAIN P
                     /\ ~ \E j \in Recognised : /\ R[j].source \in DOMAIN P
                                                  /\ R[j].target = R[i].target)
                        => R[i].target \notin DOMAIN out
               /\ \A k \in DOMAIN out :
                    out[k] = NoneVal
                        => \E i \in Recognised : /\ R[i].target = k
                                                  /\ R[i].source \in DOMAIN P
                                                  /\ P[R[i].source] = NoneVal

\* C17 (as claimed): the result of _transform_data has as keys only target
\* fields of rules of the list (so the empty list gives the empty payload and
\* payload fields no rule maps are dropped), and for each rule whose source
\* field is in the payload the result maps the rule's target field to the
\* payload's value of the source field of the last such rule with that target.
C17_LastPresentRuleWins ==
    xf.out.kind = "return"
        => LET P == xf.data
               R == xf.rules
               out == xf.out.value[1]
               Present == {i \in Recognised : R[i].source \in DOMAIN P}
           IN  /\ DOMAIN out \subseteq {R[i].target : i \in Recognised}
               /\ \A i \in Present :
                    (\A j \in Present : R[j].target = R[i].target => j <= i)
                        => /\ R[i].target \in DOMAIN out
                           /\ out[R[i].target] = P[R[i].source]

\* the place of a step in the order permission check, rule retrieval,
\* transformation, delivery, counter update
StepRank(x) ==
    CASE x = "permission" -> 1
      [] x = "rules" -> 2
      [] x = "transform" -> 3
      [] x = "lookup" -> 4
      [] x \in {"post", "publish"} -> 5
      [] x = "count_success" -> 6
      [] x = "count_failure" -> 7
      [] OTHER -> 0

\* C18: with no other call in flight, the steps an integrate call has taken
\* are in the order permission check, rule retrieval, transformation, target
\* lookup, delivery, counter update; a call the rule store refused has fetched
\* no rules, made no delivery attempt and sent nothing; and the success counter
\* of the source has grown only after the call sent its message.
C18_StepOrder ==
    \A t \in Threads :
        call[t].op = "integrate"
            => LET steps == local[t].steps
               IN  /\ steps # <<>> /\ steps[1] = "permission"
                   /\ \A i, j \in DOMAIN steps :
                        i < j => StepRank(steps[i]) < StepRank(steps[j])
                   /\ \A i \in DOMAIN steps : StepRank(steps[i]) > 0
                   /\ local[t].answer = "denied"
                        => /\ Range(steps) \subseteq {"permission", "count_failure"}
                           /\ sent[t] = <<>>
                   /\ (\/ "count_success" \in Range(steps)
                       \/ /\ call[t].a \in DOMAIN pre[t]
                          /\ modules[call[t].a].metrics.success
                                # pre[t][call[t].a].metrics.success)
                        => /\ Attempts(t) # <<>>
                           /\ sent[t] # <<>>

\* C18 witness: a call has gone through every step, from the permission check
\* to the success count, and its message is out
C18_Witness ==
    \E t \in Threads :
        /\ Finished(t, "integrate")
        /\ local[t].steps = <<"permission", "rules", "transform", "lookup",
                              "publish", "count_success">>
        /\ sent[t] # <<>>

\* C19: with calls made one at a time, a finished integrate call from a
\* registered source that passed the permission check has moved exactly one
\* counter of the source by exactly 1: successCount when it returned normally,
\* failureCount when it raised, the other counter being as it was.
C19_ExactlyOneCounter ==
    \A t \in Threads :
        (/\ Finished(t, "integrate")
         /\ call[t].a \in DOMAIN pre[t]
         /\ local[t].answer = "allowed")
            => /\ result[t].kind \in {"return", "raise"}
               /\ result[t].kind = "return"
                    => CountersMoved(modules, pre[t], call[t].a, 1, 0)
               /\ result[t].kind = "raise"
                    => CountersMoved(modules, pre[t], call[t].a, 0, 1)

\* C19 witness: a call that passed the permission check has returned normally
\* from a source that an earlier call left with one failure
C19_Witness ==
    \E t \in Threads :
        /\ Finished(t, "integrate")
        /\ local[t].answer = "allowed"
        /\ result[t].kind = "return"
        /\ call[t].a \in DOMAIN pre[t]
        /\ pre[t][call[t].a].metrics = [success |-> 0, failure |-> 1]
        /\ modules[call[t].a].metrics = [success |-> 1, failure |-> 1]

\* C20 (as claimed): an integrate call that has sent its message to the
\* target's topic, or got a success response from the target's endpoint,
\* returns normally, whether its source is registered or not.
C20_NoRaiseAfterDelivery ==
    \A t \in Threads :
        (Finished(t, "integrate") /\ sent[t] # <<>>)
            => result[t].kind = "return"

====
